---- MODULE Spec2Model ----
(***************************************************************************)
(* Net-worth tracker backend (src/backend/server.py).                      *)
(*                                                                         *)
(* The store is the MongoDB collection `portfolios`; every request handler *)
(* is a coroutine that awaits find_one (and insert_one when no document    *)
(* exists), runs its body synchronously (quote lookups included), awaits   *)
(* update_one and returns.  Each await is one step of the model, so that   *)
(* handlers of different requests interleave exactly at the awaits.        *)
(*                                                                         *)
(* Python values: an Optional field is <<>> (None) or <<v>>; a dict is a   *)
(* function whose DOMAIN is the set of keys present; floats are naturals.  *)
(***************************************************************************)
EXTENDS Integers, Sequences, FiniteSets, TLC

\* Number of request slots (coroutines that may be in flight).
NumProcs == 2
\* uuid4 budget of the valuation runs: how many assets and snapshots a run creates.
MaxAssets == 1
MaxSnapshots == 1
\* "Keep only last 100 snapshots"
HistoryCap == 100
\* the retention runs: snapshots taken beyond the cap, and assets added meanwhile
FifoExtra == 2
FifoAssets == 1
\* the bookkeeping runs: assets, goals and snapshots created in a run, together
BookEntries == 3
\* the round-trip runs: assets created in a run
PairAssets == 3
\* the goal runs: goals created in a run
GoalEntries == 2
\* the overlapping runs: entries (assets, a goal, a snapshot) created in a run
RaceEntries == 2
\* the overlapping snapshot runs: snapshots taken in a run
SnapEntries == 3
\* the progress runs: assets created in a run
LiveAssets == 1

Procs == 1..NumProcs

VARIABLES
    docs,     \* db.portfolios: the documents with user_id "default", in insertion order
    pc,       \* per slot: "idle", "insert_one", "body", "update_one", "respond",
              \* or "get_stock_price" while inside a provider call that hangs
    req,      \* per slot: the request being served (its JSON body is read in the body)
    local,    \* per slot: the handler's in-memory Portfolio
    res,      \* per slot: the response being built; status 0 until it is known
    calls,    \* per slot: the get_stock_price calls the handler made, in order
    uuids,    \* uuid4 values handed out so far, per collection
    clock     \* datetime.now(timezone.utc)

vars == <<docs, pc, req, local, res, calls, uuids, clock>>

None == <<>>
Some(v) == <<v>>
IsNone(o) == o = <<>>

\* dict.get(key, default)
Get(d, k, default) == IF k \in DOMAIN d THEN d[k] ELSE default
\* the dict f cut down to the keys K
Restrict(f, K) == [k \in K |-> f[k]]

\* Python truthiness of an Optional[float] / Optional[str]
TruthyNum(o) == o # None /\ o[1] # 0
TruthyStr(o) == o # None /\ o[1] # ""

PricedTypes == {"stock", "etf"}
AssetTypes == {"stock", "etf", "super", "savings"}

\* Portfolio(): the empty default aggregate
Portfolio == [assets |-> <<>>, savings_goals |-> <<>>, net_worth_history |-> <<>>]

NoRequest == [op |-> "none"]
NoResponse == [status |-> 0]

----------------------------------------------------------------------------
(* Quote provider and get_stock_price *)

QuotePrices == {3}
\* ticker.info as far as get_stock_price reads it: no price at all, a null
\* currentPrice, or the regularMarketPrice alone
Infos ==
    {Restrict([currentPrice |-> None], {}),
     [currentPrice |-> None]}
    \cup {[regularMarketPrice |-> Some(q)] : q \in QuotePrices}
\* what the provider does on one lookup
Outcomes ==
    {[kind |-> "history", close |-> q] : q \in QuotePrices \cup {0}}
        \cup {[kind |-> "info", info |-> i] : i \in Infos}
        \cup {[kind |-> "exception"]}

\* The value get_stock_price returns: None or Some(price).
get_stock_price(out) ==
    CASE out.kind = "history" -> Some(out.close)
      [] out.kind = "info" ->
            Get(out.info, "currentPrice", Get(out.info, "regularMarketPrice", Some(0)))
      [] OTHER -> Some(0)

\* `current_price > 0` raises TypeError when current_price is None
Raises(price) == IsNone(price)
\* the comparison written `current_price >= 0`
NonNegative(price) == ~IsNone(price) /\ price[1] >= 0
Positive(price) == ~IsNone(price) /\ price[1] > 0

\* one get_stock_price call: the asset it was made for and what it returned
Call(asset_id, price) == [id |-> asset_id, price |-> price]

----------------------------------------------------------------------------
(* Valuation passes and totals *)

Raised(st) == [st EXCEPT !.raised = TRUE]

\* the guards around get_stock_price in get_portfolio_data's loop
PortfolioLooksUp(asset) ==
    /\ TruthyStr(asset.symbol) /\ asset.type \in PricedTypes
    /\ asset.manual_value = None

\* the snapshot loop's guard without its manual_value test
SnapshotLooksUpOverridden(asset) ==
    TruthyStr(asset.symbol) /\ asset.type \in PricedTypes

\* the guard around get_stock_price in create_net_worth_snapshot's loop
SnapshotLooksUp(asset) ==
    /\ TruthyStr(asset.symbol) /\ asset.type \in PricedTypes
    /\ asset.manual_value = None

\* price x quantity
Priced(current_price, quantity) == current_price[1] * quantity[1]

\* One iteration of get_portfolio_data's "Update stock prices" loop.
PortfolioPriceStep(st, i, out) ==
    LET asset == st.assets[i]
        current_price == get_stock_price(out)
        logged == [st EXCEPT !.calls = Append(@, Call(asset.id, current_price))]
    IN  IF PortfolioLooksUp(asset)
        THEN IF Raises(current_price) THEN Raised(logged)
             ELSE IF Positive(current_price) /\ TruthyNum(asset.quantity)
             THEN [logged EXCEPT
                       !.assets[i].value = Priced(current_price, asset.quantity)]
             ELSE logged
        ELSE st

RECURSIVE PortfolioPricePass(_, _, _)
PortfolioPricePass(st, i, outs) ==
    IF i > Len(st.assets) \/ st.raised THEN st
    ELSE PortfolioPricePass(PortfolioPriceStep(st, i, outs[i]), i + 1, outs)

\* One iteration of create_net_worth_snapshot's "Update stock prices first" loop.
SnapshotPriceStep(st, i, out) ==
    LET asset == st.assets[i]
        current_price == get_stock_price(out)
        logged == [st EXCEPT !.calls = Append(@, Call(asset.id, current_price))]
    IN  IF SnapshotLooksUp(asset)
        THEN IF Raises(current_price) THEN Raised(logged)
             ELSE IF Positive(current_price) /\ TruthyNum(asset.quantity)
             THEN [logged EXCEPT
                       !.assets[i].value = Priced(current_price, asset.quantity)]
             ELSE logged
        ELSE st

RECURSIVE SnapshotPricePass(_, _, _)
SnapshotPricePass(st, i, outs) ==
    IF i > Len(st.assets) \/ st.raised THEN st
    ELSE SnapshotPricePass(SnapshotPriceStep(st, i, outs[i]), i + 1, outs)

PassStart(assets) == [assets |-> assets, calls |-> <<>>, raised |-> FALSE]

\* sum(a.value for a in assets if a.type == type)
RECURSIVE SumValues(_, _)
SumValues(assets, type) ==
    IF assets = <<>> THEN 0
    ELSE (IF Head(assets).type = type THEN Head(assets).value ELSE 0)
            + SumValues(Tail(assets), type)

\* the totals with total_etfs left out of net_worth
TotalsWithoutEtfs(assets) ==
    LET total_stocks == SumValues(assets, "stock")
        total_etfs == SumValues(assets, "etf")
        total_super == SumValues(assets, "super")
        total_savings == SumValues(assets, "savings")
    IN  [stocks |-> total_stocks, etfs |-> total_etfs, super |-> total_super,
         savings |-> total_savings,
         net_worth |-> total_stocks + total_super + total_savings]

Totals(assets) ==
    LET total_stocks == SumValues(assets, "stock")
        total_etfs == SumValues(assets, "etf")
        total_super == SumValues(assets, "super")
        total_savings == SumValues(assets, "savings")
    IN  [stocks |-> total_stocks, etfs |-> total_etfs, super |-> total_super,
         savings |-> total_savings,
         net_worth |-> total_stocks + total_etfs + total_super + total_savings]

\* the slice written history[:100]: the first 100 kept
TrimHistoryKeepFirst(history) ==
    IF Len(history) > HistoryCap THEN SubSeq(history, 1, HistoryCap) ELSE history

\* "Keep only last 100 snapshots": history[-100:] when longer than 100
TrimHistory(history) ==
    IF Len(history) > HistoryCap
    THEN SubSeq(history, Len(history) - HistoryCap + 1, Len(history))
    ELSE history

\* a lookup that falls back on the last element when no id matches
FirstIndexOrLast(seq, id) ==
    IF \E i \in 1..Len(seq) : seq[i].id = id
    THEN CHOOSE i \in 1..Len(seq) :
            seq[i].id = id /\ \A j \in 1..(i - 1) : seq[j].id # id
    ELSE Len(seq)

\* index of the first element of seq with the given id, 0 when there is none
FirstIndex(seq, id) ==
    IF \E i \in 1..Len(seq) : seq[i].id = id
    THEN CHOOSE i \in 1..Len(seq) :
            seq[i].id = id /\ \A j \in 1..(i - 1) : seq[j].id # id
    ELSE 0

\* the filter written with ==: [x for x in seq if x.id == id]
OnlyId(seq, id) == SelectSeq(seq, LAMBDA x : x.id = id)

\* [x for x in seq if x.id != id]
WithoutId(seq, id) == SelectSeq(seq, LAMBDA x : x.id # id)

----------------------------------------------------------------------------
(* get_portfolio: the load half of every handler *)

\* await db.portfolios.find_one({"user_id": "default"}) of a new request r
FindOne(p, r) ==
    /\ pc[p] = "idle"
    /\ req' = [req EXCEPT ![p] = r]
    /\ IF docs # <<>>
       THEN /\ local' = [local EXCEPT ![p] = docs[1]]
            /\ pc' = [pc EXCEPT ![p] = "body"]
       ELSE /\ local' = [local EXCEPT ![p] = Portfolio]
            /\ pc' = [pc EXCEPT ![p] = "insert_one"]
    /\ UNCHANGED <<docs, res, calls, uuids, clock>>

\* await db.portfolios.insert_one(new_portfolio.dict())
InsertOne(p) ==
    /\ pc[p] = "insert_one"
    /\ docs' = Append(docs, Portfolio)
    /\ local' = [local EXCEPT ![p] = Portfolio]
    /\ pc' = [pc EXCEPT ![p] = "body"]
    /\ UNCHANGED <<req, res, calls, uuids, clock>>

\* an unhandled exception in the handler body: HTTP 500, nothing persisted
Fail(p, data, made) ==
    /\ pc' = [pc EXCEPT ![p] = "respond"]
    /\ req' = [req EXCEPT ![p] = data]
    /\ res' = [res EXCEPT ![p] = [status |-> 500]]
    /\ calls' = [calls EXCEPT ![p] = made]
    /\ UNCHANGED <<docs, local>>

\* the body ran to its update_one; `ret` is what the handler will return
ToUpdate(p, data, portfolio, made, ret) ==
    /\ pc' = [pc EXCEPT ![p] = "update_one"]
    /\ req' = [req EXCEPT ![p] = data]
    /\ local' = [local EXCEPT ![p] = portfolio]
    /\ calls' = [calls EXCEPT ![p] = made]
    /\ res' = [res EXCEPT ![p] = ret]
    /\ UNCHANGED docs

\* the request with its JSON body
WithData(r, d) == [op |-> r.op, id |-> r.id, data |-> d]

----------------------------------------------------------------------------
(* Handler bodies: the synchronous code between the load and the update *)

\* a get_portfolio_data that writes the assets it re-priced to the store
get_portfolio_data_storing(p) ==
    /\ pc[p] = "body" /\ req[p].op = "get_portfolio_data"
    /\ \E outs \in [{i \in 1..Len(local[p].assets) :
                        PortfolioLooksUp(local[p].assets[i])} -> Outcomes] :
        LET st == PortfolioPricePass(PassStart(local[p].assets), 1, outs)
        IN  IF st.raised THEN Fail(p, req[p], st.calls)
            ELSE /\ pc' = [pc EXCEPT ![p] = "respond"]
                 /\ local' = [local EXCEPT ![p].assets = st.assets]
                 /\ calls' = [calls EXCEPT ![p] = st.calls]
                 /\ res' = [res EXCEPT ![p] =
                                [status |-> 200, totals |-> Totals(st.assets)]]
                 /\ docs' = [docs EXCEPT ![1].assets = st.assets]
                 /\ req' = req
    /\ UNCHANGED <<uuids, clock>>

get_portfolio_data(p) ==
    /\ pc[p] = "body" /\ req[p].op = "get_portfolio_data"
    /\ \E outs \in [{i \in 1..Len(local[p].assets) :
                        PortfolioLooksUp(local[p].assets[i])} -> Outcomes] :
        LET st == PortfolioPricePass(PassStart(local[p].assets), 1, outs)
        IN  IF st.raised THEN Fail(p, req[p], st.calls)
            ELSE /\ pc' = [pc EXCEPT ![p] = "respond"]
                 /\ local' = [local EXCEPT ![p].assets = st.assets]
                 /\ calls' = [calls EXCEPT ![p] = st.calls]
                 /\ res' = [res EXCEPT ![p] =
                                [status |-> 200, totals |-> Totals(st.assets)]]
                 /\ UNCHANGED <<docs, req>>
    /\ UNCHANGED <<uuids, clock>>

\* "Get current price for stocks/ETFs" of add_asset
AddLooksUp(asset_data) ==
    /\ TruthyStr(Get(asset_data, "symbol", None))
    /\ TruthyNum(Get(asset_data, "quantity", None))
    /\ asset_data["type"] \in PricedTypes

AddValue(asset_data, current_price) ==
    IF AddLooksUp(asset_data) /\ Positive(current_price)
    THEN Priced(current_price, asset_data["quantity"])
    ELSE Get(asset_data, "value", 0)

NewAsset(asset_id, asset_data, value) ==
    [id |-> asset_id,
     name |-> asset_data["name"],
     type |-> asset_data["type"],
     symbol |-> Get(asset_data, "symbol", None),
     quantity |-> Get(asset_data, "quantity", None),
     value |-> value,
     manual_value |-> Get(asset_data, "manual_value", None)]

add_asset(p, Data) ==
    /\ pc[p] = "body" /\ req[p].op = "add_asset"
    /\ \E asset_data \in Data, out \in Outcomes :
        LET asset_id == uuids.asset + 1
            current_price == get_stock_price(out)
            made == IF AddLooksUp(asset_data)
                    THEN <<Call(asset_id, current_price)>>
                    ELSE <<>>
            new_asset == NewAsset(asset_id, asset_data,
                                  AddValue(asset_data, current_price))
        IN  IF AddLooksUp(asset_data) /\ Raises(current_price)
            THEN Fail(p, WithData(req[p], asset_data), made)
            ELSE ToUpdate(p, WithData(req[p], asset_data),
                          [local[p] EXCEPT !.assets = Append(@, new_asset)],
                          made, [status |-> 0, asset |-> new_asset])
    /\ uuids' = [uuids EXCEPT !.asset = @ + 1]
    /\ clock' = clock

delete_asset(p) ==
    /\ pc[p] = "body" /\ req[p].op = "delete_asset"
    /\ ToUpdate(p, req[p], [local[p] EXCEPT !.assets = WithoutId(@, req[p].id)],
                <<>>, [status |-> 0])
    /\ UNCHANGED <<uuids, clock>>

\* the field assignments of update_asset on the matched asset
Assigned(asset, asset_data) ==
    [asset EXCEPT
        !.name = Get(asset_data, "name", asset.name),
        !.type = Get(asset_data, "type", asset.type),
        !.symbol = Get(asset_data, "symbol", asset.symbol),
        !.quantity = Get(asset_data, "quantity", asset.quantity),
        !.manual_value = Get(asset_data, "manual_value", asset.manual_value)]

\* the elif of "Recalculate value if needed"
UpdateLooksUp(asset) ==
    /\ asset.manual_value = None
    /\ TruthyStr(asset.symbol) /\ TruthyNum(asset.quantity)
    /\ asset.type \in PricedTypes

\* "Recalculate value if needed", on the asset with its fields assigned
Recalculated(asset, asset_data, current_price) ==
    IF asset.manual_value # None THEN asset.manual_value[1]
    ELSE IF UpdateLooksUp(asset)
    THEN IF Positive(current_price)
         THEN Priced(current_price, asset.quantity)
         ELSE asset.value
    ELSE Get(asset_data, "value", asset.value)

update_asset(p, Data) ==
    /\ pc[p] = "body" /\ req[p].op = "update_asset"
    /\ UNCHANGED <<uuids, clock>>
    /\ \E asset_data \in Data, out \in Outcomes :
        LET i == FirstIndex(local[p].assets, req[p].id)
            asset == Assigned(local[p].assets[i], asset_data)
            current_price == get_stock_price(out)
            made == IF UpdateLooksUp(asset)
                    THEN <<Call(asset.id, current_price)>>
                    ELSE <<>>
            value == Recalculated(asset, asset_data, current_price)
        IN  IF i = 0
            THEN ToUpdate(p, WithData(req[p], asset_data), local[p], <<>>,
                          [status |-> 0])
            ELSE IF UpdateLooksUp(asset) /\ Raises(current_price)
            THEN Fail(p, WithData(req[p], asset_data), made)
            ELSE ToUpdate(p, WithData(req[p], asset_data),
                    [local[p] EXCEPT !.assets[i] = [asset EXCEPT !.value = value]],
                    made, [status |-> 0])

NewGoal(goal_id, goal_data) ==
    [id |-> goal_id,
     name |-> goal_data["name"],
     target_amount |-> goal_data["target_amount"],
     current_amount |-> Get(goal_data, "current_amount", 0),
     deadline |-> Get(goal_data, "deadline", None)]

add_savings_goal(p, Data) ==
    /\ pc[p] = "body" /\ req[p].op = "add_savings_goal"
    /\ \E goal_data \in Data :
        LET new_goal == NewGoal(uuids.goal + 1, goal_data)
        IN  ToUpdate(p, WithData(req[p], goal_data),
                     [local[p] EXCEPT !.savings_goals = Append(@, new_goal)],
                     <<>>, [status |-> 0, goal |-> new_goal])
    /\ uuids' = [uuids EXCEPT !.goal = @ + 1]
    /\ clock' = clock

\* an update that takes the absent amount and deadline from the model defaults
ReplacedGoal(goal, goal_data) ==
    [goal EXCEPT
        !.name = Get(goal_data, "name", goal.name),
        !.target_amount = Get(goal_data, "target_amount", goal.target_amount),
        !.current_amount = Get(goal_data, "current_amount", 0),
        !.deadline = Get(goal_data, "deadline", None)]

\* the field assignments of update_savings_goal on the matched goal
AssignedGoal(goal, goal_data) ==
    [goal EXCEPT
        !.name = Get(goal_data, "name", goal.name),
        !.target_amount = Get(goal_data, "target_amount", goal.target_amount),
        !.current_amount = Get(goal_data, "current_amount", goal.current_amount),
        !.deadline = Get(goal_data, "deadline", goal.deadline)]

update_savings_goal(p, Data) ==
    /\ pc[p] = "body" /\ req[p].op = "update_savings_goal"
    /\ \E goal_data \in Data :
        LET i == FirstIndex(local[p].savings_goals, req[p].id)
        IN  ToUpdate(p, WithData(req[p], goal_data),
                IF i = 0 THEN local[p]
                ELSE [local[p] EXCEPT
                        !.savings_goals[i] = AssignedGoal(@, goal_data)],
                <<>>, [status |-> 0])
    /\ UNCHANGED <<uuids, clock>>

delete_savings_goal(p) ==
    /\ pc[p] = "body" /\ req[p].op = "delete_savings_goal"
    /\ ToUpdate(p, req[p],
                [local[p] EXCEPT !.savings_goals = WithoutId(@, req[p].id)],
                <<>>, [status |-> 0])
    /\ UNCHANGED <<uuids, clock>>

\* a snapshot built without a fresh id
NewSnapshotSameId(snapshot_id, date, totals) ==
    [id |-> 1,
     date |-> date,
     total_stocks |-> totals.stocks,
     total_etfs |-> totals.etfs,
     total_super |-> totals.super,
     total_savings |-> totals.savings,
     net_worth |-> totals.net_worth]

NewSnapshot(snapshot_id, date, totals) ==
    [id |-> snapshot_id,
     date |-> date,
     total_stocks |-> totals.stocks,
     total_etfs |-> totals.etfs,
     total_super |-> totals.super,
     total_savings |-> totals.savings,
     net_worth |-> totals.net_worth]

\* a create_net_worth_snapshot that puts the new snapshot first in the history
create_net_worth_snapshot_first(p) ==
    /\ pc[p] = "body" /\ req[p].op = "create_net_worth_snapshot"
    /\ \E outs \in [{i \in 1..Len(local[p].assets) :
                        SnapshotLooksUp(local[p].assets[i])} -> Outcomes] :
        LET st == SnapshotPricePass(PassStart(local[p].assets), 1, outs)
            snapshot == NewSnapshot(uuids.snapshot + 1, clock + 1, Totals(st.assets))
        IN  IF st.raised
            THEN Fail(p, req[p], st.calls) /\ UNCHANGED <<uuids, clock>>
            ELSE /\ uuids' = [uuids EXCEPT !.snapshot = @ + 1]
                 /\ clock' = clock + 1
                 /\ ToUpdate(p, req[p],
                        [local[p] EXCEPT
                            !.assets = st.assets,
                            !.net_worth_history = TrimHistory(<<snapshot>> \o @)],
                        st.calls, [status |-> 0, snapshot |-> snapshot])

create_net_worth_snapshot(p) ==
    /\ pc[p] = "body" /\ req[p].op = "create_net_worth_snapshot"
    /\ \E outs \in [{i \in 1..Len(local[p].assets) :
                        SnapshotLooksUp(local[p].assets[i])} -> Outcomes] :
        LET st == SnapshotPricePass(PassStart(local[p].assets), 1, outs)
            snapshot == NewSnapshot(uuids.snapshot + 1, clock + 1, Totals(st.assets))
        IN  IF st.raised
            THEN Fail(p, req[p], st.calls) /\ UNCHANGED <<uuids, clock>>
            ELSE /\ uuids' = [uuids EXCEPT !.snapshot = @ + 1]
                 /\ clock' = clock + 1
                 /\ ToUpdate(p, req[p],
                        [local[p] EXCEPT
                            !.assets = st.assets,
                            !.net_worth_history = TrimHistory(Append(@, snapshot))],
                        st.calls, [status |-> 0, snapshot |-> snapshot])

\* GET /api/stock-price/{symbol}: no load, one lookup, 404 unless price > 0
get_stock_price_endpoint(p) ==
    /\ pc[p] = "idle"
    /\ \E out \in Outcomes :
        LET price == get_stock_price(out)
        IN  /\ calls' = [calls EXCEPT ![p] = <<Call(0, price)>>]
            /\ res' = [res EXCEPT ![p] =
                        IF Raises(price) THEN [status |-> 500]
                        ELSE IF Positive(price)
                        THEN [status |-> 200, price |-> price[1]]
                        ELSE [status |-> 404]]
    /\ pc' = [pc EXCEPT ![p] = "respond"]
    /\ req' = [req EXCEPT ![p] = [op |-> "get_stock_price_endpoint", id |-> 0]]
    /\ UNCHANGED <<docs, local, uuids, clock>>

\* the handler body in slot p is about to call get_stock_price
AboutToLookUp(p, AddData, UpdateData) ==
    \/ /\ req[p].op = "get_portfolio_data"
       /\ \E a \in {local[p].assets[i] : i \in 1..Len(local[p].assets)} :
            PortfolioLooksUp(a)
    \/ /\ req[p].op = "create_net_worth_snapshot"
       /\ \E a \in {local[p].assets[i] : i \in 1..Len(local[p].assets)} :
            SnapshotLooksUp(a)
    \/ /\ req[p].op = "add_asset"
       /\ \E asset_data \in AddData : AddLooksUp(asset_data)
    \/ /\ req[p].op = "update_asset"
       /\ \E asset_data \in UpdateData :
            LET i == FirstIndex(local[p].assets, req[p].id)
            IN  i # 0 /\ UpdateLooksUp(Assigned(local[p].assets[i], asset_data))

\* yf.Ticker(symbol).history(...) or .info never returns: get_stock_price is
\* called without a timeout, so the handler stays inside the call
NeverReturns(p, AddData, UpdateData) ==
    /\ pc[p] = "body"
    /\ AboutToLookUp(p, AddData, UpdateData)
    /\ pc' = [pc EXCEPT ![p] = "get_stock_price"]
    /\ UNCHANGED <<docs, req, local, res, calls, uuids, clock>>

\* the same in the handler of GET /api/stock-price/{symbol}
EndpointNeverReturns(p) ==
    /\ pc[p] = "idle"
    /\ pc' = [pc EXCEPT ![p] = "get_stock_price"]
    /\ req' = [req EXCEPT ![p] = [op |-> "get_stock_price_endpoint", id |-> 0]]
    /\ UNCHANGED <<docs, local, res, calls, uuids, clock>>

----------------------------------------------------------------------------
(* The persist half and the response *)

\* a $set of the whole aggregate, whatever the handler
SetAllFields(op) == {"assets", "savings_goals", "net_worth_history"}

\* the $set keys with create_net_worth_snapshot writing its history alone
SetHistoryAlone(op) ==
    CASE op \in {"add_asset", "delete_asset", "update_asset"} -> {"assets"}
      [] op \in {"add_savings_goal", "update_savings_goal", "delete_savings_goal"} ->
            {"savings_goals"}
      [] op = "create_net_worth_snapshot" -> {"net_worth_history"}
      [] OTHER -> {}

\* the keys of the handler's {"$set": {...}}
SetFields(op) ==
    CASE op \in {"add_asset", "delete_asset", "update_asset"} -> {"assets"}
      [] op \in {"add_savings_goal", "update_savings_goal", "delete_savings_goal"} ->
            {"savings_goals"}
      [] op = "create_net_worth_snapshot" -> {"assets", "net_worth_history"}
      [] OTHER -> {}

\* an update that adds the entries of `portfolio` to the stored lists
SetOnAdding(doc, portfolio, F) ==
    [k \in DOMAIN doc |->
        IF k \in F
        THEN doc[k] \o SelectSeq(portfolio[k],
                LAMBDA x : x \notin {doc[k][i] : i \in 1..Len(doc[k])})
        ELSE doc[k]]

\* an update that replaces the whole document by `portfolio`
SetOnWhole(doc, portfolio, F) == [k \in DOMAIN doc |-> portfolio[k]]

\* $set of the fields F of `portfolio` on the document doc
SetOn(doc, portfolio, F) ==
    [k \in DOMAIN doc |-> IF k \in F THEN portfolio[k] ELSE doc[k]]

\* await db.portfolios.update_one({"user_id": "default"}, {"$set": ...}, upsert=True)
UpdateOne(p) ==
    /\ pc[p] = "update_one"
    /\ docs' = IF docs = <<>>
               THEN <<SetOn(Portfolio, local[p], SetFields(req[p].op))>>
               ELSE [docs EXCEPT ![1] = SetOn(@, local[p], SetFields(req[p].op))]
    /\ pc' = [pc EXCEPT ![p] = "respond"]
    /\ res' = [res EXCEPT ![p].status = 200]
    /\ UNCHANGED <<req, local, calls, uuids, clock>>

\* the response leaves; the handler's frame is gone
Respond(p) ==
    /\ pc[p] = "respond"
    /\ pc' = [pc EXCEPT ![p] = "idle"]
    /\ req' = [req EXCEPT ![p] = NoRequest]
    /\ local' = [local EXCEPT ![p] = Portfolio]
    /\ res' = [res EXCEPT ![p] = NoResponse]
    /\ calls' = [calls EXCEPT ![p] = <<>>]
    /\ UNCHANGED <<docs, uuids, clock>>

----------------------------------------------------------------------------
(* Requests *)

Init ==
    /\ docs = <<>>
    /\ pc = [p \in Procs |-> "idle"]
    /\ req = [p \in Procs |-> NoRequest]
    /\ local = [p \in Procs |-> Portfolio]
    /\ res = [p \in Procs |-> NoResponse]
    /\ calls = [p \in Procs |-> <<>>]
    /\ uuids = [asset |-> 0, goal |-> 0, snapshot |-> 0]
    /\ clock = 0

\* request payloads: every dict with the required keys and some optional ones
Dicts(full, required, optional) ==
    {Restrict(f, required \cup K) : f \in full, K \in SUBSET optional}

\* the request lines: handler and path parameter (0 when the route has none)
Lines(ops, asset_ids, goal_ids) ==
    {[op |-> o, id |-> 0] :
        o \in ops \cap {"get_portfolio_data", "create_net_worth_snapshot",
                        "add_asset", "add_savings_goal"}}
    \cup {[op |-> o, id |-> i] :
            o \in ops \cap {"delete_asset", "update_asset"}, i \in asset_ids}
    \cup {[op |-> o, id |-> i] :
            o \in ops \cap {"update_savings_goal", "delete_savings_goal"},
            i \in goal_ids}

\* uuid4 budget: a request that creates an entry needs an unused id
InBudget(r, budget) ==
    /\ r.op = "add_asset" => uuids.asset < budget.asset
    /\ r.op = "add_savings_goal" => uuids.goal < budget.goal
    /\ r.op = "create_net_worth_snapshot" => uuids.snapshot < budget.snapshot
    /\ r.op \in {"add_asset", "add_savings_goal", "create_net_worth_snapshot"} =>
            uuids.asset + uuids.goal + uuids.snapshot < budget.total

\* path parameters: the ids handed out so far and one that never was
PathId(r) ==
    /\ r.op \in {"update_asset", "delete_asset"} => r.id <= uuids.asset + 1
    /\ r.op \in {"update_savings_goal", "delete_savings_goal"} =>
            r.id <= uuids.goal + 1

\* a new request r arrives at slot p and its handler starts
Arrive(p, lines, budget) ==
    \E r \in lines : InBudget(r, budget) /\ PathId(r) /\ FindOne(p, r)

----------------------------------------------------------------------------
(* Valuation: asset requests served one after another, with every payload  *)
(* shape the valuation rules distinguish and every provider outcome.       *)

ValuationLines ==
    Lines({"get_portfolio_data", "create_net_worth_snapshot", "add_asset",
           "update_asset", "delete_asset"}, 1..MaxAssets, {})

ValuationBudget ==
    [asset |-> MaxAssets, goal |-> 0, snapshot |-> MaxSnapshots,
     total |-> MaxAssets + MaxSnapshots]

\* an equity holding: a stock with its ticker symbol
ValuationAdd ==
    Dicts([name : {"a"}, type : {"stock"}, symbol : {Some("S")},
           quantity : {Some(0), Some(2)}, value : {5}, manual_value : {Some(7)}],
          {"name", "type", "symbol"}, {"quantity", "value", "manual_value"})

\* partial updates of one field
ValuationUpdate ==
    {d \in Dicts([quantity : {Some(0), Some(2)}, value : {5},
                  manual_value : {None, Some(7)}],
                 {}, {"quantity", "value", "manual_value"}) :
        Cardinality(DOMAIN d) <= 1}

Next ==
    \/ Arrive(1, ValuationLines, ValuationBudget)
    \/ InsertOne(1)
    \/ get_portfolio_data(1)
    \/ add_asset(1, ValuationAdd)
    \/ update_asset(1, ValuationUpdate)
    \/ delete_asset(1)
    \/ create_net_worth_snapshot(1)
    \/ UpdateOne(1)
    \/ Respond(1)

Spec == Init /\ [][Next]_vars

----------------------------------------------------------------------------
(* Retention: snapshots taken one after another until the history is past  *)
(* its cap, while a savings account may be added in between.               *)

FifoLines == Lines({"create_net_worth_snapshot", "add_asset"}, {}, {})

FifoBudget ==
    [asset |-> FifoAssets, goal |-> 0, snapshot |-> HistoryCap + FifoExtra,
     total |-> FifoAssets + HistoryCap + FifoExtra]

FifoAdd == {[name |-> "a", type |-> "savings", value |-> 5]}

NextFifo ==
    \/ Arrive(1, FifoLines, FifoBudget)
    \/ InsertOne(1)
    \/ add_asset(1, FifoAdd)
    \/ create_net_worth_snapshot(1)
    \/ UpdateOne(1)
    \/ Respond(1)

SpecFifo == Init /\ [][NextFifo]_vars

----------------------------------------------------------------------------
(* Bookkeeping: every route, served one request after another, over        *)
(* holdings of all four classes and savings goals.                         *)

BookLines ==
    Lines({"get_portfolio_data", "create_net_worth_snapshot", "add_asset",
           "update_asset", "delete_asset", "add_savings_goal",
           "update_savings_goal", "delete_savings_goal"},
          1..BookEntries, 1..BookEntries)

BookBudget ==
    [asset |-> BookEntries, goal |-> BookEntries, snapshot |-> BookEntries,
     total |-> BookEntries]

\* the payloads of backend_test.py: a ticker and a quantity, or a value
BookAdd ==
    {[name |-> "a", type |-> t, symbol |-> Some("S"), quantity |-> Some(2)] :
        t \in {"stock", "etf"}}
    \cup {[name |-> "a", type |-> t, value |-> 5] : t \in {"super", "savings"}}

BookUpdate == {[value |-> 5]}

BookAddGoal == {[name |-> "g", target_amount |-> 10, current_amount |-> 4]}

BookUpdateGoal == {[current_amount |-> 6]}

NextBook ==
    \/ Arrive(1, BookLines, BookBudget)
    \/ InsertOne(1)
    \/ get_portfolio_data(1)
    \/ add_asset(1, BookAdd)
    \/ update_asset(1, BookUpdate)
    \/ delete_asset(1)
    \/ add_savings_goal(1, BookAddGoal)
    \/ update_savings_goal(1, BookUpdateGoal)
    \/ delete_savings_goal(1)
    \/ create_net_worth_snapshot(1)
    \/ UpdateOne(1)
    \/ Respond(1)

SpecBook == Init /\ [][NextBook]_vars

----------------------------------------------------------------------------
(* Round trips: requests served one after another, the handler of the next *)
(* request starting in slot 2 once the response of slot 1 is built, so that *)
(* a request and the one served right after it are both in view.           *)

PairLines ==
    Lines({"get_portfolio_data", "add_asset", "delete_asset"}, 1..PairAssets, {})

PairBudget ==
    [asset |-> PairAssets, goal |-> 0, snapshot |-> 0, total |-> PairAssets]

PairAdd ==
    {[name |-> "a", type |-> "stock", symbol |-> Some("S"), quantity |-> Some(2)],
     [name |-> "b", type |-> "savings", value |-> 5]}

NextPairs ==
    \/ pc[2] = "idle" /\ Arrive(1, PairLines, PairBudget)
    \/ InsertOne(1)
    \/ get_portfolio_data(1)
    \/ add_asset(1, PairAdd)
    \/ delete_asset(1)
    \/ UpdateOne(1)
    \/ pc[1] = "respond" /\ Arrive(2, PairLines, PairBudget)
    \/ get_portfolio_data(2)
    \/ add_asset(2, PairAdd)
    \/ delete_asset(2)
    \/ UpdateOne(2)
    \/ pc[2] \in {"idle", "respond"} /\ Respond(1)
    \/ pc[1] = "idle" /\ Respond(2)

SpecPairs == Init /\ [][NextPairs]_vars

----------------------------------------------------------------------------
(* Goals: the savings-goal routes, served one request after another, with  *)
(* every partial update payload.                                           *)

GoalLines ==
    Lines({"add_savings_goal", "update_savings_goal"}, {}, 1..GoalEntries)

GoalBudget ==
    [asset |-> 0, goal |-> GoalEntries, snapshot |-> 0, total |-> GoalEntries]

GoalAdd ==
    {[name |-> "g", target_amount |-> 10, current_amount |-> 4,
      deadline |-> Some("d")]}

\* every subset of the four fields, and a null deadline
GoalUpdate ==
    Dicts([name : {"h"}, target_amount : {11}, current_amount : {6},
           deadline : {Some("e")}],
          {}, {"name", "target_amount", "current_amount", "deadline"})
    \cup {[deadline |-> None]}

NextGoals ==
    \/ Arrive(1, GoalLines, GoalBudget)
    \/ InsertOne(1)
    \/ add_savings_goal(1, GoalAdd)
    \/ update_savings_goal(1, GoalUpdate)
    \/ UpdateOne(1)
    \/ Respond(1)

SpecGoals == Init /\ [][NextGoals]_vars

----------------------------------------------------------------------------
(* Overlap: the handlers of two requests in flight, interleaved at their   *)
(* awaits.  The first request of an episode takes slot 1, a request that   *)
(* arrives while it is being served takes slot 2, and the next episode     *)
(* starts once both responses have left.                                   *)

\* the path parameters tried: the first two ids of a collection
RaceIds == 1..2

RaceLines ==
    Lines({"get_portfolio_data", "create_net_worth_snapshot", "add_asset",
           "update_asset", "delete_asset", "add_savings_goal",
           "update_savings_goal", "delete_savings_goal"},
          RaceIds, RaceIds)

\* at most one goal and one snapshot among the entries of a run
RaceBudget ==
    [asset |-> RaceEntries, goal |-> 1, snapshot |-> 1, total |-> RaceEntries]

RaceAdd == {[name |-> "a", type |-> "savings", value |-> 5]}

RaceUpdate == {[value |-> 6]}

RaceAddGoal == {[name |-> "g", target_amount |-> 10]}

RaceUpdateGoal == {[current_amount |-> 6]}

Idle(p) == pc[p] = "idle"

InFlight(p) == pc[p] \in {"insert_one", "body", "update_one"}

\* the steps of the handler in slot p, up to its response
Handle(p) ==
    \/ InsertOne(p)
    \/ get_portfolio_data(p)
    \/ add_asset(p, RaceAdd)
    \/ update_asset(p, RaceUpdate)
    \/ delete_asset(p)
    \/ add_savings_goal(p, RaceAddGoal)
    \/ update_savings_goal(p, RaceUpdateGoal)
    \/ delete_savings_goal(p)
    \/ create_net_worth_snapshot(p)
    \/ UpdateOne(p)

NextRace ==
    \/ Idle(2) /\ Arrive(1, RaceLines, RaceBudget)
    \/ InFlight(1) /\ Arrive(2, RaceLines, RaceBudget)
    \/ Handle(1)
    \/ Handle(2)
    \/ ~InFlight(2) /\ Respond(1)
    \/ Idle(1) /\ Respond(2)

SpecRace == Init /\ [][NextRace]_vars

----------------------------------------------------------------------------
(* Overlapping snapshots: CreateSnapshot and AddAsset of a priced holding, *)
(* two requests in flight per episode as in the overlapping runs.          *)

SnapLines == Lines({"create_net_worth_snapshot", "add_asset"}, {}, {})

SnapBudget ==
    [asset |-> 1, goal |-> 0, snapshot |-> SnapEntries, total |-> SnapEntries + 1]

SnapAdd ==
    {[name |-> "a", type |-> "stock", symbol |-> Some("S"), quantity |-> Some(2)]}

HandleSnap(p) ==
    \/ InsertOne(p)
    \/ add_asset(p, SnapAdd)
    \/ create_net_worth_snapshot(p)
    \/ UpdateOne(p)

NextSnap ==
    \/ Idle(2) /\ Arrive(1, SnapLines, SnapBudget)
    \/ InFlight(1) /\ Arrive(2, SnapLines, SnapBudget)
    \/ HandleSnap(1)
    \/ HandleSnap(2)
    \/ ~InFlight(2) /\ Respond(1)
    \/ Idle(1) /\ Respond(2)

SpecSnap == Init /\ [][NextSnap]_vars

----------------------------------------------------------------------------
(* Progress: the routes that look up quotes, served one request after      *)
(* another, with a provider that may never answer.  The event loop runs    *)
(* every handler that can take a step, and the store answers every await.  *)

LiveLines ==
    Lines({"get_portfolio_data", "create_net_worth_snapshot", "add_asset",
           "update_asset"}, 1..LiveAssets, {})

LiveBudget ==
    [asset |-> LiveAssets, goal |-> 0, snapshot |-> 1, total |-> LiveAssets + 1]

LiveAdd ==
    {[name |-> "a", type |-> "stock", symbol |-> Some("S"), quantity |-> Some(2)]}

LiveUpdate == {[quantity |-> Some(3)]}

\* the steps a handler takes once the calls it awaits or makes have returned
Returns(p) ==
    \/ InsertOne(p)
    \/ get_portfolio_data(p)
    \/ add_asset(p, LiveAdd)
    \/ update_asset(p, LiveUpdate)
    \/ create_net_worth_snapshot(p)
    \/ UpdateOne(p)
    \/ Respond(p)

NextLive ==
    \/ Arrive(1, LiveLines, LiveBudget)
    \/ get_stock_price_endpoint(1)
    \/ Returns(1)
    \/ NeverReturns(1, LiveAdd, LiveUpdate)
    \/ EndpointNeverReturns(1)

SpecLive == Init /\ [][NextLive]_vars /\ WF_vars(Returns(1))

----------------------------------------------------------------------------
(* Claims on valuation, checked under Spec *)

\* the stored assets: those of the document every load reads
Stored == IF docs = <<>> THEN Portfolio ELSE docs[1]
Elems(seq) == {seq[i] : i \in 1..Len(seq)}
\* a handler body has run: its results are in local, res and calls
Ran(p) == pc[p] \in {"update_one", "respond"}
Completed(p) == Ran(p) /\ res[p].status # 500
Equity(a) == a.type \in {"stock", "etf"}

\* C1: override precedence. Every stored asset whose manual_value is set has
\* value equal to manual_value, whatever the quotes did.
C1_OverridePrecedence ==
    \A d \in Elems(docs) : \A a \in Elems(d.assets) :
        a.manual_value # None => a.value = a.manual_value[1]

\* C2: pricing formula. When a handler has looked up the quote of an equity
\* asset that has no override and a quantity (0 included), and the price
\* returned is > 0, the asset's value in the handler's result is
\* price x quantity.
C2_PricingFormula ==
    \A p \in Procs : Completed(p) =>
        \A i \in 1..Len(calls[p]) : \A a \in Elems(local[p].assets) :
            LET c == calls[p][i]
            IN  (/\ a.id = c.id /\ c.price # None /\ c.price[1] > 0
                 /\ Equity(a) /\ a.manual_value = None
                 /\ a.symbol # None /\ a.quantity # None)
                => a.value = c.price[1] * a.quantity[1]

RepricingOps == {"get_portfolio_data", "update_asset", "create_net_worth_snapshot"}
\* the lookup gave nothing usable: no data, an exception, or a price of zero
NoQuote(c) == c.price = None \/ c.price[1] = 0
\* every asset with this id has the same value in both lists
SameValue(before, after, id) ==
    \A a \in Elems(before), b \in Elems(after) :
        (a.id = id /\ b.id = id) => b.value = a.value

\* C3: stale on failure. When GetPortfolio, UpdateAsset or CreateSnapshot looks
\* up the quote of an asset and gets nothing usable, the asset's value in the
\* handler's result equals its value as loaded, the persist leaves its stored
\* value as it was, and a failed handler persists nothing.
C3_StaleOnFailure ==
    [][\A p \in Procs :
        /\ (pc[p] = "body" /\ pc'[p] # "body" /\ req[p].op \in RepricingOps) =>
            \A i \in 1..Len(calls'[p]) :
                NoQuote(calls'[p][i]) =>
                    SameValue(local[p].assets, local'[p].assets, calls'[p][i].id)
        /\ (pc[p] = "update_one" /\ pc'[p] = "respond"
                /\ req[p].op \in RepricingOps) =>
            \A i \in 1..Len(calls[p]) :
                NoQuote(calls[p][i]) =>
                    SameValue(Stored.assets, Stored'.assets, calls[p][i].id)
        /\ (pc[p] = "body" /\ res'[p].status = 500) => docs' = docs
      ]_vars

\* a snapshot was persisted after a zero quote, and the asset kept its value
C3_Witness ==
    \E p \in Procs :
        /\ pc[p] = "respond" /\ res[p].status = 200
        /\ req[p].op = "create_net_worth_snapshot"
        /\ \E i \in 1..Len(calls[p]) : \E a \in Elems(Stored.assets) :
            /\ calls[p][i].price = Some(0) /\ a.id = calls[p][i].id
            /\ Equity(a) /\ a.manual_value = None /\ a.value > 0

Overridden(a) == a.manual_value # None
Persists(p) == pc[p] = "update_one" /\ pc'[p] = "respond"

\* C7: an override set by UpdateAsset sticks. (a) The persist of an UpdateAsset
\* whose payload sets manual_value = m stores the asset with value m. (b) A
\* stored overridden asset is left exactly as it is by every step but the
\* persist of an UpdateAsset or DeleteAsset of its id. (c) GetPortfolio and
\* CreateSnapshot return every overridden asset as loaded, whatever the quotes.
C7_OverrideSticky ==
    [][/\ \A p \in Procs :
            (/\ Persists(p) /\ req[p].op = "update_asset"
             /\ "manual_value" \in DOMAIN req[p].data
             /\ req[p].data["manual_value"] # None) =>
            \A a \in Elems(Stored'.assets) :
                a.id = req[p].id =>
                    /\ a.manual_value = req[p].data["manual_value"]
                    /\ a.value = req[p].data["manual_value"][1]
       /\ \A a \in Elems(Stored.assets) :
            Overridden(a) =>
                \/ a \in Elems(Stored'.assets)
                \/ \E p \in Procs :
                    /\ Persists(p) /\ req[p].id = a.id
                    /\ req[p].op \in {"update_asset", "delete_asset"}
       /\ \A p \in Procs :
            (/\ pc[p] = "body" /\ pc'[p] # "body" /\ res'[p].status # 500
             /\ req[p].op \in {"get_portfolio_data", "create_net_worth_snapshot"}) =>
            \A i \in 1..Len(local[p].assets) :
                Overridden(local[p].assets[i]) =>
                    local'[p].assets[i] = local[p].assets[i]
      ]_vars

\* a snapshot was persisted while a priceable asset carried the override 7 that
\* an UpdateAsset had set, and the asset is stored with value 7
C7_Witness ==
    \E p \in Procs :
        /\ pc[p] = "respond" /\ res[p].status = 200
        /\ req[p].op = "create_net_worth_snapshot"
        /\ \E a \in Elems(Stored.assets) :
            /\ a.manual_value = Some(7) /\ a.value = 7
            /\ Equity(a) /\ a.symbol # None /\ a.quantity = Some(2)

\* C8: no quote lookup for an overridden asset. Every get_stock_price call a
\* handler made was for an asset whose manual_value is None when it is valued.
C8_NoLookupWhenOverridden ==
    \A p \in Procs : Ran(p) =>
        \A i \in 1..Len(calls[p]) : \A a \in Elems(local[p].assets) :
            a.id = calls[p][i].id => a.manual_value = None

\* C9: quote failures are absorbed. No handler ends in an error.
C9_QuoteFailuresAbsorbed == \A p \in Procs : res[p].status # 500

----------------------------------------------------------------------------
(* Claims on retention, checked under SpecFifo *)

\* C4: bounded FIFO retention. The stored history never holds more than
\* HistoryCap entries; the persist of a CreateSnapshot on a full history
\* stores the old entries but the oldest, in their order, followed by the new
\* snapshot; and once more than HistoryCap snapshots were taken one after
\* another, the first snapshot's id is gone.
C4_BoundedFifo ==
    /\ [](\A d \in Elems(docs) : Len(d.net_worth_history) <= HistoryCap)
    /\ [][\A p \in Procs :
            (/\ Persists(p) /\ req[p].op = "create_net_worth_snapshot"
             /\ Len(Stored.net_worth_history) = HistoryCap) =>
            /\ Len(Stored'.net_worth_history) = HistoryCap
            /\ Stored'.net_worth_history =
                    Append(Tail(Stored.net_worth_history), res[p].snapshot)
            /\ \A s \in Elems(Stored'.net_worth_history) :
                    s.id # Head(Stored.net_worth_history).id
      ]_vars
    /\ [](uuids.snapshot > HistoryCap /\ (\A p \in Procs : pc[p] = "idle")
            => \A s \in Elems(Stored.net_worth_history) : s.id # 1)

\* HistoryCap + 1 snapshots were taken and the history is full
C4_Witness ==
    /\ \A p \in Procs : pc[p] = "idle"
    /\ uuids.snapshot = HistoryCap + 1
    /\ Len(Stored.net_worth_history) = HistoryCap
    /\ Stored.net_worth_history[1].id = 2

----------------------------------------------------------------------------
(* Claims on bookkeeping, checked under SpecBook *)

\* the sum of value over the assets of one class, position by position
RECURSIVE ClassSum(_, _, _)
ClassSum(assets, class, n) ==
    IF n = 0 THEN 0
    ELSE ClassSum(assets, class, n - 1)
            + (IF assets[n].type = class THEN assets[n].value ELSE 0)

\* C5: aggregation consistency. Every stored snapshot has net_worth equal to
\* the sum of its four class totals, and the snapshot a CreateSnapshot builds
\* carries, per class, the sum of value over the assets as its valuation pass
\* left them.
C5_AggregationConsistency ==
    /\ \A d \in Elems(docs) : \A s \in Elems(d.net_worth_history) :
        s.net_worth = s.total_stocks + s.total_etfs + s.total_super + s.total_savings
    /\ \A p \in Procs :
        (Completed(p) /\ req[p].op = "create_net_worth_snapshot") =>
            LET s == res[p].snapshot
                assets == local[p].assets
                n == Len(assets)
            IN  /\ s.total_stocks = ClassSum(assets, "stock", n)
                /\ s.total_etfs = ClassSum(assets, "etf", n)
                /\ s.total_super = ClassSum(assets, "super", n)
                /\ s.total_savings = ClassSum(assets, "savings", n)
                /\ s.net_worth = ClassSum(assets, "stock", n)
                        + ClassSum(assets, "etf", n)
                        + ClassSum(assets, "super", n)
                        + ClassSum(assets, "savings", n)

\* a stored snapshot over a priced stock and a savings account
C5_Witness ==
    \E s \in Elems(Stored.net_worth_history) :
        s.total_stocks = 6 /\ s.total_savings = 5 /\ s.net_worth = 11

\* the request names an id that no stored asset (or goal) carries
Unmatched(r) ==
    \/ /\ r.op \in {"update_asset", "delete_asset"}
       /\ \A a \in Elems(Stored.assets) : a.id # r.id
    \/ /\ r.op \in {"update_savings_goal", "delete_savings_goal"}
       /\ \A g \in Elems(Stored.savings_goals) : g.id # r.id

\* C10: an unmatched id is a no-op. Every step of an UpdateAsset, DeleteAsset,
\* UpdateGoal or DeleteGoal whose id matches no stored entry leaves the stored
\* assets, goals and history as they were and raises no error, and its persist
\* ends in a success response.
C10_UnmatchedIdNoOp ==
    [][\A p \in Procs :
        /\ (pc'[p] # pc[p] /\ Unmatched(req'[p])) =>
            Stored' = Stored /\ res'[p].status # 500
        /\ (Persists(p) /\ Unmatched(req[p])) => res'[p].status = 200
      ]_vars

\* a request with an unmatched id was answered with success while an asset, a
\* goal and a snapshot are stored
C10_Witness ==
    \E p \in Procs :
        /\ pc[p] = "respond" /\ res[p].status = 200 /\ Unmatched(req[p])
        /\ Stored.assets # <<>> /\ Stored.savings_goals # <<>>
        /\ Stored.net_worth_history # <<>>

----------------------------------------------------------------------------
(* Claims on round trips, checked under SpecPairs *)

\* slot 1 answered a request `first` with success, and the request served
\* right after it, `next`, was answered with success by slot 2
Answered(first, next) ==
    /\ pc[1] = "respond" /\ req[1].op = first /\ res[1].status = 200
    /\ pc[2] = "respond" /\ req[2].op = next /\ res[2].status = 200

\* id, name and class of the listed assets, in order
Listing(assets) ==
    [i \in 1..Len(assets) |->
        [id |-> assets[i].id, name |-> assets[i].name, type |-> assets[i].type]]

\* C6: CRUD round trip, requests served one after another. The GetPortfolio
\* answered right after an AddAsset lists an asset with the id, name and class
\* of the asset the AddAsset returned; the GetPortfolio answered right after a
\* DeleteAsset lists no asset with the deleted id and lists the stored assets
\* in their order; and the persist of a DeleteAsset stores the assets it found
\* stored, but those with the deleted id, in their order.
C6_CrudRoundTrip ==
    /\ [](Answered("add_asset", "get_portfolio_data") =>
            \E a \in Elems(local[2].assets) :
                /\ a.id = res[1].asset.id
                /\ a.name = res[1].asset.name
                /\ a.type = res[1].asset.type)
    /\ [](Answered("delete_asset", "get_portfolio_data") =>
            /\ \A a \in Elems(local[2].assets) : a.id # req[1].id
            /\ Listing(local[2].assets) = Listing(Stored.assets))
    /\ [][\A p \in Procs :
            (Persists(p) /\ req[p].op = "delete_asset") =>
                /\ \A a \in Elems(Stored'.assets) : a.id # req[p].id
                /\ \E keep \in [1..Len(Stored'.assets) -> 1..Len(Stored.assets)] :
                    /\ \A i, j \in DOMAIN keep : i < j => keep[i] < keep[j]
                    /\ \A i \in DOMAIN keep : Stored'.assets[i] = Stored.assets[keep[i]]
                /\ Len(Stored'.assets) =
                    Cardinality({i \in 1..Len(Stored.assets) :
                                    Stored.assets[i].id # req[p].id})
      ]_vars

\* the first of three assets was deleted and the GetPortfolio served next
\* lists the other two
C6_Witness ==
    /\ Answered("delete_asset", "get_portfolio_data")
    /\ req[1].id = 1
    /\ Len(local[2].assets) = 2
    /\ local[2].assets[1].id = 2 /\ local[2].assets[2].id = 3

----------------------------------------------------------------------------
(* Claims on goals, checked under SpecGoals *)

GoalFields == {"name", "target_amount", "current_amount", "deadline"}

\* the goal `after` is the goal `before` with the payload's fields, and only
\* those, taken from the payload
PartiallyUpdated(before, after, data) ==
    /\ after.id = before.id
    /\ \A f \in GoalFields :
        after[f] = IF f \in DOMAIN data THEN data[f] ELSE before[f]

\* C11: goal partial update. The persist of an UpdateGoal whose id matches a
\* stored goal stores the same number of goals; the matched goal keeps its id
\* and its position, takes every field present in the payload from the payload
\* and keeps every field absent from it; every other goal is stored as it was.
C11_GoalPartialUpdate ==
    [][\A p \in Procs :
        (/\ Persists(p) /\ req[p].op = "update_savings_goal"
         /\ \E g \in Elems(Stored.savings_goals) : g.id = req[p].id) =>
            LET before == Stored.savings_goals
                after == Stored'.savings_goals
            IN  /\ Len(after) = Len(before)
                /\ \A i \in 1..Len(before) :
                    IF before[i].id = req[p].id
                    THEN PartiallyUpdated(before[i], after[i], req[p].data)
                    ELSE after[i] = before[i]
      ]_vars

\* the second of two goals was updated in its name and deadline alone, and
\* the first goal had been updated before
C11_Witness ==
    /\ pc[1] = "respond" /\ res[1].status = 200
    /\ req[1].op = "update_savings_goal" /\ req[1].id = 2
    /\ DOMAIN req[1].data = {"name", "deadline"}
    /\ Len(Stored.savings_goals) = 2
    /\ Stored.savings_goals[1].id = 1 /\ Stored.savings_goals[1].current_amount = 6
    /\ Stored.savings_goals[2] =
        [id |-> 2, name |-> "h", target_amount |-> 10, current_amount |-> 4,
         deadline |-> Some("e")]

----------------------------------------------------------------------------
(* Claims on overlapping requests, checked under SpecRace *)

AssetOps == {"add_asset", "update_asset", "delete_asset"}
GoalOps == {"add_savings_goal", "update_savings_goal", "delete_savings_goal"}

C13_OneDocumentPerUser == Len(docs) <= 1


----------------------------------------------------------------------------
(* Claims on progress, checked under SpecLive *)

\* C14: no indefinite blocking. Every handler that has started (GetPortfolio,
\* AddAsset, UpdateAsset, CreateSnapshot, GetQuote) eventually has its
\* response, also when a provider call never returns.
C14_NoIndefiniteBlocking ==
    \A p \in Procs : (pc[p] \notin {"idle", "respond"}) ~> (pc[p] = "respond")


----------------------------------------------------------------------------
(* Claims on overlapping snapshots, checked under SpecSnap *)

\* every copy of a snapshot there is: stored, loaded by a handler, or returned
Snapshots ==
    UNION {Elems(d.net_worth_history) : d \in Elems(docs)}
    \cup UNION {Elems(local[p].net_worth_history) : p \in Procs}
    \cup {res[p].snapshot : p \in {q \in Procs : "snapshot" \in DOMAIN res[q]}}

\* a snapshot id stands for the same fields before and after the step
SameFields(before, after) ==
    \A s \in before, t \in after : s.id = t.id => s = t

\* the stored history changes in a persist of CreateSnapshot only
OnlyCreateSnapshot ==
    Stored'.net_worth_history # Stored.net_worth_history =>
        \E p \in Procs : Persists(p) /\ req[p].op = "create_net_worth_snapshot"

\* `after` is `before` with one entry appended and entries evicted from the front
AppendedAndEvicted(before, after) ==
    \E new \in Elems(after), k \in 0..Len(before) :
        after = SubSeq(Append(before, new), k + 1, Len(before) + 1)

\* C15 as stated: snapshots are immutable. A snapshot id stands for the same
\* fields in all states; the stored history changes only in a persist of
\* CreateSnapshot, and every change appends one entry and evicts from the front.
C15_SnapshotsImmutable ==
    [][/\ SameFields(Snapshots, Snapshots')
       /\ OnlyCreateSnapshot
       /\ Stored'.net_worth_history # Stored.net_worth_history =>
            AppendedAndEvicted(Stored.net_worth_history, Stored'.net_worth_history)
      ]_vars

\* the history without its last entry
Front(history) == SubSeq(history, 1, Len(history) - 1)

\* C15 amended: a snapshot id stands for the same fields in all states; the
\* stored history changes only in a persist of CreateSnapshot, which stores the
\* history its handler loaded with the one new snapshot appended (and the front
\* evicted): an append to the stored history when the stored history is still
\* the loaded one, and otherwise an overwrite that drops what other
\* CreateSnapshots persisted since the load.
C15_ImmutableOverwritten ==
    [][/\ SameFields(Snapshots, Snapshots')
       /\ OnlyCreateSnapshot
       /\ \A p \in Procs :
            (Persists(p) /\ req[p].op = "create_net_worth_snapshot") =>
                LET mine == local[p].net_worth_history
                IN  /\ Stored'.net_worth_history = mine
                    /\ mine[Len(mine)] = res[p].snapshot
                    /\ \A s \in Elems(Stored.net_worth_history) :
                            s.id # res[p].snapshot.id
                    /\ Front(mine) = Stored.net_worth_history =>
                            AppendedAndEvicted(Stored.net_worth_history,
                                               Stored'.net_worth_history)
                    /\ AppendedAndEvicted(Stored.net_worth_history,
                                          Stored'.net_worth_history)
                        \/ \E s \in Elems(Stored.net_worth_history) :
                                s \notin Elems(mine)
      ]_vars

\* two CreateSnapshots overlapped: the stored history holds the snapshot of the
\* one that persisted last and not the snapshot the other one returned
C15_Witness ==
    /\ pc[1] = "respond" /\ res[1].status = 200
    /\ pc[2] = "respond" /\ res[2].status = 200
    /\ req[1].op = "create_net_worth_snapshot"
    /\ req[2].op = "create_net_worth_snapshot"
    /\ \E p \in {1, 2} :
        /\ res[p].snapshot \in Elems(Stored.net_worth_history)
        /\ res[3 - p].snapshot \notin Elems(Stored.net_worth_history)


\* the four class totals of snapshot s are the sums of value over `assets`
TotalsOf(s, assets) ==
    LET n == Len(assets)
    IN  /\ s.total_stocks = ClassSum(assets, "stock", n)
        /\ s.total_etfs = ClassSum(assets, "etf", n)
        /\ s.total_super = ClassSum(assets, "super", n)
        /\ s.total_savings = ClassSum(assets, "savings", n)

\* C16: snapshot and refreshed assets are persisted together. The persist of a
\* CreateSnapshot stores the handler's re-valued assets and its history in one
\* step, the newest stored snapshot being the one it built, with class totals
\* equal to the per-class sums over the assets stored by that step; and
\* whenever a snapshot enters the stored history, the assets stored by the
\* same step are the ones its totals were computed from.
C16_PersistedTogether ==
    [][/\ \A p \in Procs :
            (Persists(p) /\ req[p].op = "create_net_worth_snapshot") =>
                LET history == Stored'.net_worth_history
                IN  /\ Stored'.assets = local[p].assets
                    /\ history # <<>>
                    /\ history[Len(history)] = res[p].snapshot
                    /\ TotalsOf(history[Len(history)], Stored'.assets)
       /\ \A s \in Elems(Stored'.net_worth_history) :
            s \notin Elems(Stored.net_worth_history) =>
                TotalsOf(s, Stored'.assets)
      ]_vars

\* a CreateSnapshot re-valued the stock from a quote of 3 and persisted: the
\* stored asset and the newest stored snapshot both carry 6
C16_Witness ==
    \E p \in Procs :
        /\ pc[p] = "respond" /\ res[p].status = 200
        /\ req[p].op = "create_net_worth_snapshot"
        /\ calls[p] = <<Call(1, Some(3))>>
        /\ Len(Stored.assets) = 1 /\ Stored.assets[1].value = 6
        /\ Stored.net_worth_history # <<>>
        /\ Stored.net_worth_history[Len(Stored.net_worth_history)] = res[p].snapshot
        /\ res[p].snapshot.total_stocks = 6


----------------------------------------------------------------------------
(* More claims on overlapping requests, checked under SpecRace *)

\* both requests of an episode were answered with success
BothAnswered(first, second) ==
    /\ pc[1] = "respond" /\ res[1].status = 200 /\ req[1].op = first
    /\ pc[2] = "respond" /\ res[2].status = 200 /\ req[2].op = second

\* C17: lost update is reachable. Two mutating requests that overlap load the
\* same stored state and both return success, and the stored assets are then
\* the list of the handler that persisted last alone: of two overlapping
\* AddAssets exactly one returned asset is stored, and the asset returned by an
\* AddAsset is not stored when the CreateSnapshot it overlapped persisted last.
C17_LostUpdate ==
    /\ BothAnswered("add_asset", "add_asset") =>
        /\ Stored.assets \in {local[1].assets, local[2].assets}
        /\ res[1].asset \in Elems(Stored.assets)
            <=> res[2].asset \notin Elems(Stored.assets)
    /\ \A p \in {1, 2} :
        (\/ /\ p = 1 /\ BothAnswered("add_asset", "create_net_worth_snapshot")
         \/ /\ p = 2 /\ BothAnswered("create_net_worth_snapshot", "add_asset")) =>
            /\ Stored.assets \in {local[1].assets, local[2].assets}
            /\ Stored.assets = local[3 - p].assets =>
                res[p].asset \notin Elems(Stored.assets)

\* two AddAssets overlapped on the empty aggregate and both returned success:
\* one asset is stored, and it is not the one the first request returned
C17_Witness ==
    /\ BothAnswered("add_asset", "add_asset")
    /\ local[1].assets = <<res[1].asset>>
    /\ local[2].assets = <<res[2].asset>>
    /\ Stored.assets = <<res[2].asset>>


----------------------------------------------------------------------------
(* More claims on valuation, checked under Spec *)

\* C18: rule 4 for a missing quantity. When the body of an UpdateAsset leaves
\* the matched equity asset without override and without quantity or symbol,
\* the asset's value is the one it was loaded with, whatever the payload.
C18_MissingQuantityStale ==
    [][\A p \in Procs :
        (pc[p] = "body" /\ pc'[p] # "body" /\ req[p].op = "update_asset") =>
            \A i \in 1..Len(local[p].assets) :
                LET before == local[p].assets[i]
                    after == local'[p].assets[i]
                IN  (/\ before.id = req[p].id
                     /\ Equity(after) /\ after.manual_value = None
                     /\ (after.quantity = None \/ after.symbol = None))
                    => after.value = before.value
      ]_vars


----------------------------------------------------------------------------
(* Claims on goals under overlap, checked under SpecRace *)

\* C19: goals are independent of valuation in every interleaving. The stored
\* goals change only in the persist of AddGoal, UpdateGoal or DeleteGoal; no
\* step of AddAsset, UpdateAsset, DeleteAsset, GetPortfolio or CreateSnapshot
\* changes them, whatever its handler loaded; and the persist of a goal
\* operation leaves the stored assets and history as they are.
C19_GoalsIndependent ==
    [][/\ Stored'.savings_goals # Stored.savings_goals =>
            \E p \in Procs : Persists(p) /\ req[p].op \in GoalOps
       /\ \A p \in Procs :
            (pc'[p] # pc[p] /\ pc[p] # "idle" /\ req[p].op \notin GoalOps) =>
                Stored'.savings_goals = Stored.savings_goals
       /\ \A p \in Procs :
            (pc'[p] # pc[p] /\ pc[p] \notin {"idle", "insert_one"}
                /\ req[p].op \in GoalOps) =>
                /\ Stored'.assets = Stored.assets
                /\ Stored'.net_worth_history = Stored.net_worth_history
      ]_vars

\* an AddAsset that loaded no goal and an AddGoal that loaded no asset
\* overlapped, and both the goal and the asset are stored
C19_Witness ==
    /\ BothAnswered("add_asset", "add_savings_goal")
    /\ local[1].savings_goals = <<>> /\ local[2].assets = <<>>
    /\ Stored.savings_goals = <<res[2].goal>>
    /\ Stored.assets = <<res[1].asset>>


\* the request in slot p names an id that no entry ever had
NoSuchId(p) ==
    \/ req[p].op \in {"update_asset", "delete_asset"} /\ req[p].id > uuids.asset
    \/ req[p].op \in {"update_savings_goal", "delete_savings_goal"}
        /\ req[p].id > uuids.goal

\* C20: an unmatched-id operation stays a no-op under overlap. The persist of
\* an UpdateAsset, DeleteAsset, UpdateGoal or DeleteGoal whose id matches no
\* entry leaves every stored asset and every stored goal in the store as it is,
\* whatever was persisted since its handler loaded.
C20_UnmatchedNoOpUnderOverlap ==
    [][\A p \in Procs :
        (Persists(p) /\ NoSuchId(p)) =>
            /\ \A a \in Elems(Stored.assets) : a \in Elems(Stored'.assets)
            /\ \A g \in Elems(Stored.savings_goals) :
                    g \in Elems(Stored'.savings_goals)
      ]_vars


----------------------------------------------------------------------------
(* Claims on reads, checked under Spec *)

\* slot p is serving a GetPortfolio before or after the step
Getting(p) ==
    req[p].op = "get_portfolio_data" \/ req'[p].op = "get_portfolio_data"

\* C21: GetPortfolio is read-only on the store. A step of a GetPortfolio
\* handler leaves the collection as it is, or creates the empty default
\* document when there is none, so that the stored assets, goals and history
\* are the same before and after it; its handler never comes to an update_one;
\* the values it re-priced are in its response only; and a value that is new in
\* the stored assets was stored by the persist of an AddAsset, UpdateAsset or
\* CreateSnapshot.
C21_GetPortfolioReadOnly ==
    [][/\ \A p \in Procs :
            (pc'[p] # pc[p] /\ Getting(p)) =>
                /\ docs' = docs \/ (docs = <<>> /\ docs' = <<Portfolio>>)
                /\ Stored' = Stored
                /\ pc'[p] # "update_one"
       /\ \A b \in Elems(Stored'.assets) :
            (\A a \in Elems(Stored.assets) : a.id # b.id \/ a.value # b.value) =>
                \E p \in Procs :
                    /\ Persists(p)
                    /\ req[p].op \in {"add_asset", "update_asset",
                                      "create_net_worth_snapshot"}
      ]_vars

\* a GetPortfolio re-priced the stock from a quote of 3 and answered with the
\* total 6, while the stored asset keeps the value 0 it had
C21_Witness ==
    \E p \in Procs :
        /\ pc[p] = "respond" /\ res[p].status = 200
        /\ req[p].op = "get_portfolio_data"
        /\ calls[p] = <<Call(1, Some(3))>>
        /\ Len(local[p].assets) = 1 /\ local[p].assets[1].value = 6
        /\ res[p].totals.stocks = 6
        /\ Len(Stored.assets) = 1 /\ Stored.assets[1].value = 0


----------------------------------------------------------------------------
(* Claims on the order of the history, checked under SpecSnap *)

\* C22: the history stays oldest-first under any interleaving. In every
\* stored history the timestamps do not decrease from the first entry to the
\* last, also after overlapping CreateSnapshots of which one overwrote what
\* the other had appended.
C22_OldestFirst ==
    \A d \in Elems(docs) :
        \A i, j \in 1..Len(d.net_worth_history) :
            i < j => d.net_worth_history[i].date <= d.net_worth_history[j].date

\* two CreateSnapshots overlapped on a history of one entry: the snapshot of
\* one of them was overwritten, and the stored history is the older entry
\* followed by the snapshot of the other
C22_Witness ==
    /\ BothAnswered("create_net_worth_snapshot", "create_net_worth_snapshot")
    /\ Len(Stored.net_worth_history) = 2
    /\ \E p \in {1, 2} :
        /\ Stored.net_worth_history[2] = res[p].snapshot
        /\ res[3 - p].snapshot \notin Elems(Stored.net_worth_history)
        /\ Stored.net_worth_history[1].date < res[3 - p].snapshot.date
        /\ Stored.net_worth_history[1].date < res[p].snapshot.date

====
